---- MODULE Spec2Model ----
(***************************************************************************)
(* Session and document lifecycle of the Streamlit document Q&A script     *)
(* (src/main.py).  Every user interaction re-executes main() from the top  *)
(* against the persistent st.session_state; pc is the position of the      *)
(* running script.                                                          *)
(***************************************************************************)
EXTENDS Integers, Sequences, FiniteSets, TLC

VARIABLES
    gemini_file,        \* st.session_state.gemini_file (0 = None, else remote handle)
    current_file_key,   \* st.session_state.current_file_key ("" = attribute not set)
    chat_history,       \* st.session_state.chat_history, sequence of <<question, answer>>
    gemini_configured,  \* st.session_state.gemini_configured
    file_info,          \* st.session_state.file_info
    uploaded_file,      \* value of the st.file_uploader widget
    question,           \* value of the st.text_input widget
    ask_button,         \* st.button("Ask") of the current run
    clear_button,       \* st.button("Clear History") of the current run
    pc,                 \* position of the script: idle / probe / sidebar / chat
    runs,               \* number of user interactions so far
    remote_files,       \* files held by the remote File API; the handle is the index
    tmp_files,          \* temporary files existing on the local disk
    uploadCalls,        \* number of genai.upload_file calls issued
    answerCalls,        \* number of generate_content([prompt, file]) calls issued
    probeCalls,         \* number of setup_gemini calls
    probesOk,           \* number of setup_gemini calls that returned True
    last_upload,        \* outcome of the sidebar block of the current run
    turn_doc,           \* for each turn of chat_history, the handle it was asked against
    asked,              \* questions passed to answer_question_with_gemini since chat_history was last []
    last_ask            \* arguments and result of the last answer_question_with_gemini call

vars == <<gemini_file, current_file_key, chat_history, gemini_configured, file_info,
          uploaded_file, question, ask_button, clear_button, pc, runs,
          remote_files, tmp_files, uploadCalls, answerCalls, probeCalls, probesOk,
          last_upload, turn_doc, asked, last_ask>>

session == <<gemini_file, current_file_key, chat_history, gemini_configured, file_info>>
widgets == <<uploaded_file, question, ask_button, clear_button>>
remote  == <<remote_files, tmp_files, uploadCalls, answerCalls, probeCalls, probesOk>>

----------------------------------------------------------------------------
(* Bounds *)
MaxRuns == 5
MaxCalls == 3
MaxDocs == 3

(* Input domains *)
FileNames == {"r.md", "r.md_1.md"}
FileSizes == {1, 11}
Files == [name : FileNames, size : FileSizes]
Questions == {"q1", "q2"}
AnswerTexts == {"A"}
RemoteErrors == {"timeout"}

(* Python None for each kind of value *)
None == 0
NoUpload == [name |-> "", size |-> 0]
NoKey == ""
NoInfo == [name |-> "", mime_type |-> "", state |-> ""]
NoAsk == [query |-> "", doc |-> 0, text |-> "", called |-> FALSE, raised |-> FALSE]

----------------------------------------------------------------------------
(* Pure functions of main.py *)

\* setup_gemini: True iff configure + test generate_content("Hello") did not raise
setup_gemini(roundTripOk) == roundTripOk

\* mutant: the key leaves the size out
file_key_NameOnly(f) == f.name

\* file_key = f"{uploaded_file.name}_{uploaded_file.size}"
file_key(f) == f.name \o "_" \o ToString(f.size)

\* mutant: every presented file counts as new
IsNewFile_Always(gf, cur_key, key) == TRUE

\* if not st.session_state.gemini_file or getattr(..., 'current_file_key', None) != file_key
IsNewFile(gf, cur_key, key) == gf = None \/ cur_key # key

\* mutant: the availability flag is not consulted
SubmitGate_AnyFile(f, configured) == f # NoUpload

\* if uploaded_file is not None and st.session_state.gemini_configured
SubmitGate(f, configured) == f # NoUpload /\ configured

\* if st.session_state.gemini_file and st.session_state.gemini_configured
ChatGate(gf, configured) == gf # None /\ configured

\* mutant: the probe runs on every run of the script
ShouldProbe_Always(configured) == TRUE

\* if not st.session_state.gemini_configured
ShouldProbe(configured) == ~configured

\* upload_file_to_gemini: tmp is the NamedTemporaryFile(delete=False) path,
\* handle the value genai.upload_file would return, ok whether it returns.
\* Result: the returned gemini_file and the temporary files left on disk.
upload_file_to_gemini(f, tmp, handle, ok) ==
    IF ok
    THEN [gemini_file |-> handle, left |-> {}]
    ELSE [gemini_file |-> None, left |-> {tmp}]

\* mutant: no check for an absent document
answer_question_with_gemini_NoCheck(query, gf, resp) ==
    [query |-> query, doc |-> gf,
     text |-> IF resp.ok THEN resp.text
              ELSE "Error generating response: " \o resp.err,
     called |-> TRUE, raised |-> FALSE]

\* answer_question_with_gemini(query, gemini_file); resp is the remote outcome
answer_question_with_gemini(query, gf, resp) ==
    IF gf = None
    THEN [query |-> query, doc |-> gf, text |-> "No document uploaded yet.",
          called |-> FALSE, raised |-> FALSE]
    ELSE [query |-> query, doc |-> gf,
          text |-> IF resp.ok THEN resp.text
                   ELSE "Error generating response: " \o resp.err,
          called |-> TRUE, raised |-> FALSE]

\* get_file_info(gemini_file); stored is the remote record, ok whether get_file returns
get_file_info(stored, ok) ==
    IF ok
    THEN [name |-> IF stored.display_name # "" THEN stored.display_name ELSE stored.name,
          mime_type |-> stored.mime_type, state |-> stored.state]
    ELSE [name |-> stored.display_name, mime_type |-> "Unknown type", state |-> "Active"]

\* mutant: a failed upload clears the history
ApplyUpload_ClearOnFail(ss, gf, key) ==
    IF gf # None
    THEN [gemini_file |-> gf, current_file_key |-> key, chat_history |-> <<>>]
    ELSE [ss EXCEPT !.chat_history = <<>>]

\* mutant: the result is stored without the check for None
ApplyUpload_Unconditional(ss, gf, key) ==
    [gemini_file |-> gf, current_file_key |-> key, chat_history |-> <<>>]

\* mutant: the history is kept when the document is replaced
ApplyUpload_KeepHistory(ss, gf, key) ==
    IF gf # None
    THEN [gemini_file |-> gf, current_file_key |-> key, chat_history |-> ss.chat_history]
    ELSE ss

\* lines 134-137: the session fields after upload_file_to_gemini returned gf
ApplyUpload(ss, gf, key) ==
    IF gf # None
    THEN [gemini_file |-> gf, current_file_key |-> key, chat_history |-> <<>>]
    ELSE ss

\* mutant: the new turn is put first
AppendTurn_Prepend(history, q, answer) == <<<<q, answer>>>> \o history

\* st.session_state.chat_history.append((question, answer))
AppendTurn(history, q, answer) == Append(history, <<q, answer>>)

\* the record the remote File API keeps for an uploaded file
RemoteRecord(f, handle) ==
    [name |-> "files/" \o ToString(handle), display_name |-> f.name, size |-> f.size,
     mime_type |-> "text/markdown", state |-> "ACTIVE"]

Responses == [ok : {TRUE}, text : AnswerTexts, err : {""}]
                \cup [ok : {FALSE}, text : {""}, err : RemoteErrors]

----------------------------------------------------------------------------
Init ==
    /\ gemini_file = None
    /\ current_file_key = NoKey
    /\ chat_history = <<>>
    /\ gemini_configured = FALSE
    /\ file_info = NoInfo
    /\ uploaded_file = NoUpload
    /\ question = ""
    /\ ask_button = FALSE
    /\ clear_button = FALSE
    /\ pc = "probe"
    /\ runs = 0
    /\ remote_files = <<>>
    /\ tmp_files = {}
    /\ uploadCalls = 0
    /\ answerCalls = 0
    /\ probeCalls = 0
    /\ probesOk = 0
    /\ last_upload = "none"
    /\ turn_doc = <<>>
    /\ asked = <<>>
    /\ last_ask = NoAsk

(* User interactions: each one changes a widget and re-executes the script *)
StartRun ==
    /\ pc = "idle"
    /\ runs < MaxRuns
    /\ runs' = runs + 1
    /\ pc' = "probe"
    /\ last_upload' = "none"
    /\ UNCHANGED <<session, remote, turn_doc, asked, last_ask>>

UploaderChange ==
    /\ StartRun
    /\ \E f \in Files \cup {NoUpload} :
          /\ f # uploaded_file
          /\ uploaded_file' = f
    /\ ask_button' = FALSE
    /\ clear_button' = FALSE
    /\ UNCHANGED question

QuestionChange ==
    /\ StartRun
    /\ ChatGate(gemini_file, gemini_configured)
    /\ \E q \in Questions \cup {""} :
          /\ q # question
          /\ question' = q
    /\ ask_button' = FALSE
    /\ clear_button' = FALSE
    /\ UNCHANGED uploaded_file

ClickAsk ==
    /\ StartRun
    /\ ChatGate(gemini_file, gemini_configured)
    /\ ask_button' = TRUE
    /\ clear_button' = FALSE
    /\ UNCHANGED <<uploaded_file, question>>

ClickClear ==
    /\ StartRun
    /\ ChatGate(gemini_file, gemini_configured)
    /\ ask_button' = FALSE
    /\ clear_button' = TRUE
    /\ UNCHANGED <<uploaded_file, question>>

(* main(), lines 104-108 *)
InitGemini ==
    /\ pc = "probe"
    /\ pc' = "sidebar"
    /\ IF ShouldProbe(gemini_configured)
       THEN \E roundTripOk \in BOOLEAN :
              /\ probeCalls' = probeCalls + 1
              /\ probesOk' = probesOk + (IF setup_gemini(roundTripOk) THEN 1 ELSE 0)
              /\ gemini_configured' = (IF setup_gemini(roundTripOk) THEN TRUE
                                       ELSE gemini_configured)
       ELSE UNCHANGED <<probeCalls, probesOk, gemini_configured>>
    /\ UNCHANGED <<gemini_file, current_file_key, chat_history, file_info, widgets, runs,
                   remote_files, tmp_files, uploadCalls, answerCalls,
                   last_upload, turn_doc, asked, last_ask>>

(* main(), lines 128-142 *)
Sidebar ==
    /\ pc = "sidebar"
    /\ pc' = "chat"
    /\ IF SubmitGate(uploaded_file, gemini_configured)
          /\ IsNewFile(gemini_file, current_file_key, file_key(uploaded_file))
       THEN \E ok \in BOOLEAN, metaOk \in BOOLEAN :
              LET handle == Len(remote_files) + 1
                  tmp == uploadCalls + 1
                  res == upload_file_to_gemini(uploaded_file, tmp, handle, ok)
                  ss == [gemini_file |-> gemini_file,
                         current_file_key |-> current_file_key,
                         chat_history |-> chat_history]
                  new == ApplyUpload(ss, res.gemini_file, file_key(uploaded_file))
              IN /\ uploadCalls' = uploadCalls + 1
                 /\ tmp_files' = tmp_files \cup res.left
                 /\ remote_files' = IF ok
                                    THEN Append(remote_files, RemoteRecord(uploaded_file, handle))
                                    ELSE remote_files
                 /\ gemini_file' = new.gemini_file
                 /\ current_file_key' = new.current_file_key
                 /\ chat_history' = new.chat_history
                 /\ file_info' = IF res.gemini_file # None
                                 THEN get_file_info(RemoteRecord(uploaded_file, handle), metaOk)
                                 ELSE file_info
                 /\ last_upload' = IF ok THEN "ok" ELSE "failed"
                 /\ turn_doc' = IF new.chat_history = <<>> THEN <<>> ELSE turn_doc
                 /\ asked' = IF new.chat_history = <<>> THEN <<>> ELSE asked
       ELSE /\ last_upload' = IF uploaded_file # NoUpload /\ gemini_configured
                              THEN "skipped" ELSE "none"
            /\ UNCHANGED <<uploadCalls, tmp_files, remote_files, gemini_file,
                           current_file_key, chat_history, file_info, turn_doc, asked>>
    /\ UNCHANGED <<gemini_configured, widgets, runs, answerCalls, probeCalls, probesOk,
                   last_ask>>

(* main(), lines 187-190: Clear History, then st.rerun() *)
ChatClear ==
    /\ pc = "chat"
    /\ ChatGate(gemini_file, gemini_configured)
    /\ clear_button
    /\ chat_history' = <<>>
    /\ turn_doc' = <<>>
    /\ asked' = <<>>
    /\ clear_button' = FALSE
    /\ ask_button' = FALSE
    /\ pc' = "probe"
    /\ last_upload' = "none"
    /\ UNCHANGED <<gemini_file, current_file_key, gemini_configured, file_info,
                   uploaded_file, question, runs, remote, last_ask>>

(* main(), lines 192-201 *)
ChatAsk ==
    /\ pc = "chat"
    /\ ChatGate(gemini_file, gemini_configured)
    /\ ~clear_button
    /\ ask_button /\ question # ""
    /\ \E resp \in Responses :
          LET r == answer_question_with_gemini(question, gemini_file, resp)
          IN /\ chat_history' = AppendTurn(chat_history, question, r.text)
             /\ answerCalls' = answerCalls + (IF r.called THEN 1 ELSE 0)
             /\ last_ask' = r
             /\ turn_doc' = Append(turn_doc, r.doc)
             /\ asked' = Append(asked, question)
    /\ pc' = "idle"
    /\ UNCHANGED <<gemini_file, current_file_key, gemini_configured, file_info, widgets,
                   runs, remote_files, tmp_files, uploadCalls, probeCalls, probesOk,
                   last_upload>>

(* main(), lines 164-214 when neither button acts *)
ChatRender ==
    /\ pc = "chat"
    /\ ~(ChatGate(gemini_file, gemini_configured)
         /\ (clear_button \/ (ask_button /\ question # "")))
    /\ pc' = "idle"
    /\ UNCHANGED <<session, widgets, runs, remote, last_upload, turn_doc, asked, last_ask>>

Next ==
    \/ UploaderChange
    \/ QuestionChange
    \/ ClickAsk
    \/ ClickClear
    \/ InitGemini
    \/ Sidebar
    \/ ChatClear
    \/ ChatAsk
    \/ ChatRender

Spec == Init /\ [][Next]_vars

----------------------------------------------------------------------------
(* answer_question_with_gemini called directly, on any question text and  *)
(* any document argument, None included                                    *)
InitAsk ==
    /\ gemini_file = None
    /\ current_file_key = NoKey
    /\ chat_history = <<>>
    /\ gemini_configured = FALSE
    /\ file_info = NoInfo
    /\ uploaded_file = NoUpload
    /\ question = ""
    /\ ask_button = FALSE
    /\ clear_button = FALSE
    /\ pc = "call"
    /\ runs = 0
    /\ remote_files = <<>>
    /\ tmp_files = {}
    /\ uploadCalls = 0
    /\ answerCalls = 0
    /\ probeCalls = 0
    /\ probesOk = 0
    /\ last_upload = "none"
    /\ turn_doc = <<>>
    /\ asked = <<>>
    /\ last_ask = NoAsk

AskCall ==
    /\ pc = "call"
    /\ runs < MaxCalls
    /\ runs' = runs + 1
    /\ \E query \in Questions \cup {""}, doc \in 0..MaxDocs, resp \in Responses :
          LET r == answer_question_with_gemini(query, doc, resp)
          IN /\ last_ask' = r
             /\ answerCalls' = answerCalls + (IF r.called THEN 1 ELSE 0)
    /\ UNCHANGED <<session, widgets, pc, remote_files, tmp_files, uploadCalls,
                   probeCalls, probesOk, last_upload, turn_doc, asked>>

NextAsk == AskCall

SpecAsk == InitAsk /\ [][NextAsk]_vars

----------------------------------------------------------------------------
(* Properties *)

\* (name, byte size) of the file whose upload produced the active document
ActiveIdentity ==
    IF gemini_file = None THEN NoUpload
    ELSE [name |-> remote_files[gemini_file].display_name,
          size |-> remote_files[gemini_file].size]

\* a step that swaps in the handle of a completed upload and clears the history
IsReplaceDocument ==
    /\ pc = "sidebar"
    /\ last_upload' = "ok"
    /\ gemini_file' = Len(remote_files')
    /\ gemini_file' # gemini_file
    /\ chat_history' = <<>>

\* a step that appends one turn for the submitted question
IsAppendTurn ==
    /\ pc = "chat"
    /\ ask_button
    /\ gemini_file' = gemini_file
    /\ Len(chat_history') = Len(chat_history) + 1
    /\ SubSeq(chat_history', 1, Len(chat_history)) = chat_history
    /\ chat_history'[Len(chat_history')][1] = question

\* the Clear History button
IsClearHistory ==
    /\ pc = "chat"
    /\ clear_button
    /\ gemini_file' = gemini_file
    /\ chat_history' = <<>>

\* C1: once an upload attempt has returned, successfully or with an error of the
\* remote upload call, the temporary file it created no longer exists.
C1_TempFileRemoved ==
    last_upload \in {"ok", "failed"} => uploadCalls \notin tmp_files

\* C2 (as claimed): chat_history and gemini_file change only in a replaceDocument
\* step or an appendTurn step.
C2_OnlyReplaceAndAppend ==
    [][(chat_history' # chat_history \/ gemini_file' # gemini_file)
          => (IsReplaceDocument \/ IsAppendTurn)]_vars

\* C2 (amended): chat_history changes only in a replaceDocument step, an appendTurn
\* step or a Clear History step; gemini_file changes only in a replaceDocument step.
C2_OnlyReplaceAppendClear ==
    [][/\ (chat_history' # chat_history
             => (IsReplaceDocument \/ IsAppendTurn \/ IsClearHistory))
       /\ (gemini_file' # gemini_file => IsReplaceDocument)]_vars

C2_Witness ==
    /\ gemini_file # None
    /\ last_ask.called
    /\ last_ask.doc = gemini_file
    /\ chat_history = <<>>
    /\ pc = "idle"

\* C3: a sidebar run presented with the file whose (name, size) is the identity of
\* the active document issues no upload call and leaves gemini_file,
\* current_file_key and chat_history unchanged.
C3_IdempotentResubmit ==
    [][(pc = "sidebar" /\ uploaded_file # NoUpload /\ gemini_file # None
          /\ uploaded_file = ActiveIdentity)
          => (uploadCalls' = uploadCalls
              /\ UNCHANGED <<gemini_file, current_file_key, chat_history>>)]_vars

C3_Witness ==
    /\ pc = "chat"
    /\ last_upload = "skipped"
    /\ uploaded_file = ActiveIdentity
    /\ chat_history # <<>>

\* C4: when a sidebar run presented with a file whose (name, size) differs from the
\* active identity does not fail, then right after it chat_history is empty and the
\* active document and key are those of a fresh upload of that file.
C4_HistoryInvalidation ==
    [][(pc = "sidebar" /\ uploaded_file # NoUpload /\ gemini_configured
          /\ uploaded_file # ActiveIdentity /\ last_upload' # "failed")
          => (/\ chat_history' = <<>>
              /\ gemini_file' = Len(remote_files')
              /\ gemini_file' # gemini_file
              /\ ActiveIdentity' = uploaded_file
              /\ current_file_key' = file_key(uploaded_file))]_vars

C4_Witness ==
    /\ pc = "chat"
    /\ last_upload = "ok"
    /\ gemini_file >= 2
    /\ last_ask.called
    /\ last_ask.doc # gemini_file
    /\ chat_history = <<>>

\* C5: a failed remote upload leaves gemini_file, current_file_key and chat_history
\* as they were, and gemini_file is always None or the handle of a completed upload.
C5_FailedUploadKeepsState ==
    /\ [][(pc = "sidebar" /\ last_upload' = "failed")
            => UNCHANGED <<gemini_file, current_file_key, chat_history>>]_vars
    /\ [](gemini_file = None \/ gemini_file \in 1..Len(remote_files))

C5_Witness ==
    /\ last_upload = "failed"
    /\ gemini_file # None
    /\ chat_history # <<>>

\* C6: every turn of chat_history was asked against the current gemini_file, and
\* chat_history is non-empty only if gemini_file is set.
C6_HistoryBelongsToActiveDocument ==
    /\ Len(turn_doc) = Len(chat_history)
    /\ \A i \in 1..Len(chat_history) : turn_doc[i] = gemini_file
    /\ (chat_history # <<>> => gemini_file # None)

C6_Witness ==
    /\ gemini_file >= 2
    /\ chat_history # <<>>
    /\ last_ask.doc = gemini_file

\* C7: a remote upload call or a remote answer call is issued only while
\* gemini_configured is true, after a probe has returned true.
C7_GateEnforcement ==
    [][(uploadCalls' # uploadCalls \/ answerCalls' # answerCalls)
          => (gemini_configured /\ probesOk > 0)]_vars

C7_Witness ==
    /\ ~gemini_configured
    /\ uploaded_file # NoUpload
    /\ pc = "idle"
    /\ runs >= 2
    /\ uploadCalls = 0
    /\ answerCalls = 0

\* C8: chat_history holds exactly the questions asked since it was last empty, in
\* call order, and each ask appends one turn and leaves the earlier turns as they were.
C8_AppendOnlyTranscript ==
    /\ [](/\ Len(chat_history) = Len(asked)
          /\ \A i \in 1..Len(chat_history) : chat_history[i][1] = asked[i])
    /\ [][(pc = "chat" /\ answerCalls' # answerCalls)
            => (/\ Len(chat_history') = Len(chat_history) + 1
                /\ SubSeq(chat_history', 1, Len(chat_history)) = chat_history
                /\ chat_history'[Len(chat_history')][1] = question)]_vars

C8_Witness ==
    /\ Len(chat_history) >= 2
    /\ chat_history[1][1] # chat_history[2][1]
    /\ chat_history[1][2] # chat_history[2][2]

\* C9 (as claimed): the probe is run once per session, not again on later requests.
C9_ProbeOnce == probeCalls <= 1

\* C9 (amended): once a probe has returned true the flag stays true and the probe is
\* not run again; while the flag is false every run of the script probes again.
C9_ProbeUntilAvailable ==
    /\ [][gemini_configured => (gemini_configured' /\ probeCalls' = probeCalls)]_vars
    /\ [][(pc = "probe" /\ ~gemini_configured) => probeCalls' = probeCalls + 1]_vars
    /\ [](probesOk <= 1 /\ (gemini_configured <=> probesOk = 1))

C9_Witness ==
    /\ gemini_configured
    /\ probeCalls = 2
    /\ runs = 2
    /\ pc = "idle"

\* C10: answer_question_with_gemini with gemini_file None returns the fixed message,
\* issues no remote answer call and raises nothing, whatever the question.
C10_NoDocumentSoftFailure ==
    [][(runs' # runs /\ last_ask'.doc = None)
          => (/\ last_ask'.text = "No document uploaded yet."
              /\ ~last_ask'.called
              /\ ~last_ask'.raised
              /\ answerCalls' = answerCalls)]_vars

C10_Witness ==
    /\ pc = "call"
    /\ runs > 0
    /\ last_ask.doc = None
    /\ last_ask.query = "q1"
    /\ last_ask.text = "No document uploaded yet."

====
